---------------------------- MODULE Spec2Model ----------------------------
(***************************************************************************)
(* The three functions of the repository, each a single converging loop:   *)
(*   guessNumber   src/leetcode/374 (binary search against guess())        *)
(*   arrangeCoins  src/leetcode/441 (quadratic estimate, decrement loop)   *)
(*   mySqrt        src/leetcode/69  (Newton's method in double)            *)
(* int is 32 bits, long and long long are 64 bits (LP64), double is IEEE   *)
(* binary64 with round-to-nearest-even.  TLC's integers are 32 bits wide,  *)
(* so every value wider than int is kept as a sequence of 15-bit limbs     *)
(* (least significant first, no leading zero limb) and computed exactly.   *)
(***************************************************************************)
EXTENDS Integers, Sequences, FiniteSets, TLC

VARIABLES
    prog,     \* the function that runs
    pc,       \* where it stands
    n,        \* guessNumber, arrangeCoins: the argument
    secret,   \* guessNumber: the number the oracle compares with
    api,      \* guessNumber: which wording of the oracle answers
    left, right, c, g,    \* guessNumber: its locals
    arg,      \* guessNumber: the int last handed to guess
    calls,    \* guessNumber: calls of guess so far
    i,        \* arrangeCoins: its local
    err,      \* arrangeCoins: how far the estimate is from its exact value
    x, a,     \* mySqrt: the argument, the iterate
    iters,    \* mySqrt: executions of the loop body so far
    ret,      \* the value returned
    ub        \* an integer operation left the range of its type

vars == <<prog, pc, n, secret, api, left, right, c, g, arg, calls,
          i, err, x, a, iters, ret, ub>>

\* what no step changes: the function called and what it is called with
inputs == <<prog, n, secret, api, err, x>>
\* the locals of arrangeCoins and of mySqrt
coinsLocals == <<i>>
sqrtLocals == <<a, iters>>
\* the locals of guessNumber
guessLocals == <<left, right, c, g, arg, calls>>

-----------------------------------------------------------------------------
(* Bounds of the model.                                                    *)

\* guessNumber is run for every n in 1..MaxN with every secret in 1..n
MaxN == 24
\* the oracle-call counter stops counting at MaxCalls
MaxCalls == 40
\* arrangeCoins is run for every n in 0..MaxCoins
MaxCoins == 120
\* mySqrt is run for every x in 0..MaxX
MaxX == 150
\* the loop-body counter of mySqrt stops counting at MaxIters
MaxIters == 64

-----------------------------------------------------------------------------
(* Widths of the C++ types.                                                *)

IntBits == 32
NarrowLongBits == IntBits
LongBits == 64
NarrowLongLongBits == IntBits
LongLongBits == 64
MantBits == 53

\* INT_MAX = 2^31 - 1, written so that no intermediate leaves TLC's range
IntMax == (2^30 - 1) + 2^30

-----------------------------------------------------------------------------
(* Exact naturals of any size: sequences of limbs in 0..Base-1.  The       *)
(* arithmetic is written as functions, whose arguments are values.         *)

\* the product of two limbs fits an integer of TLC
LimbBits == IntBits \div 2 - 1
Base == 2^LimbBits
BigNat == Seq(0..(Base - 1))
NatPair == BigNat \X BigNat

Norm[s \in BigNat] ==
    IF s = <<>> THEN s
    ELSE IF s[Len(s)] = 0 THEN Norm[SubSeq(s, 1, Len(s) - 1)] ELSE s

NatOf[k \in Nat] == IF k = 0 THEN <<>> ELSE <<k % Base>> \o NatOf[k \div Base]

One == <<1>>

Limb(s, j) == IF j <= Len(s) THEN s[j] ELSE 0

AddFrom[p \in BigNat, q \in BigNat, j \in Nat, cy \in 0..1] ==
    IF j > Len(p) /\ j > Len(q)
    THEN IF cy = 0 THEN <<>> ELSE <<cy>>
    ELSE <<(Limb(p, j) + Limb(q, j) + cy) % Base>>
         \o AddFrom[p, q, j + 1, (Limb(p, j) + Limb(q, j) + cy) \div Base]

Add[p \in BigNat, q \in BigNat] == AddFrom[p, q, 1, 0]

\* 2*p + b for a binary digit b
TwicePlus[p \in BigNat, b \in 0..1] == AddFrom[p, p, 1, b]

SubFrom[p \in BigNat, q \in BigNat, j \in Nat, bw \in 0..1] ==
    IF j > Len(p) THEN <<>>
    ELSE <<(p[j] - Limb(q, j) - bw) % Base>>
         \o SubFrom[p, q, j + 1, IF p[j] - Limb(q, j) - bw < 0 THEN 1 ELSE 0]

\* p - q, for p >= q
Sub[p \in BigNat, q \in BigNat] == Norm[SubFrom[p, q, 1, 0]]

CmpFrom[p \in BigNat, q \in BigNat, j \in Nat] ==
    IF j = 0 THEN 0
    ELSE IF p[j] # q[j] THEN (IF p[j] < q[j] THEN -1 ELSE 1)
    ELSE CmpFrom[p, q, j - 1]

\* -1, 0, 1 as p < q, p = q, p > q
Cmp[p \in BigNat, q \in BigNat] ==
    IF Len(p) # Len(q) THEN (IF Len(p) < Len(q) THEN -1 ELSE 1)
    ELSE CmpFrom[p, q, Len(p)]

Leq(p, q) == Cmp[p, q] <= 0
Less(p, q) == Cmp[p, q] < 0

MulLimbFrom[p \in BigNat, d \in 0..Base, j \in Nat, cy \in 0..Base] ==
    IF j > Len(p) THEN (IF cy = 0 THEN <<>> ELSE <<cy>>)
    ELSE <<(p[j] * d + cy) % Base>>
         \o MulLimbFrom[p, d, j + 1, (p[j] * d + cy) \div Base]

\* p * d for one limb d
MulLimb[p \in BigNat, d \in 0..Base] ==
    IF d = 0 THEN <<>> ELSE MulLimbFrom[p, d, 1, 0]

Zeros(k) == [j \in 1..k |-> 0]

MulFrom[p \in BigNat, q \in BigNat, j \in Nat] ==
    IF j > Len(q) THEN <<>>
    ELSE Add[IF q[j] = 0 THEN <<>> ELSE Zeros(j - 1) \o MulLimb[p, q[j]],
             MulFrom[p, q, j + 1]]

Mul[p \in BigNat, q \in BigNat] ==
    IF p = <<>> \/ q = <<>> THEN <<>> ELSE MulFrom[p, q, 1]

\* p * 2^k
ShL[p \in BigNat, k \in Nat] ==
    IF p = <<>> THEN <<>>
    ELSE Zeros(k \div LimbBits) \o MulLimb[p, 2^(k % LimbBits)]

\* t without its leading zero limbs, divided limb by limb by d = 2^b
ShRLimbs[t \in BigNat, d \in 1..Base] ==
    Norm[[j \in 1..Len(t) |->
            (t[j] \div d) + (Limb(t, j + 1) % d) * (Base \div d)]]

\* floor(p / 2^k)
ShR[p \in BigNat, k \in Nat] ==
    IF k \div LimbBits >= Len(p) THEN <<>>
    ELSE ShRLimbs[SubSeq(p, k \div LimbBits + 1, Len(p)), 2^(k % LimbBits)]

SmallBits[k \in Nat] == IF k = 0 THEN 0 ELSE 1 + SmallBits[k \div 2]

\* number of binary digits of p (0 for zero)
BitLen[p \in BigNat] ==
    IF p = <<>> THEN 0
    ELSE LimbBits * (Len(p) - 1) + SmallBits[p[Len(p)]]

\* binary digit k of p (digit 0 is the least significant)
Bit(p, k) == (Limb(p, k \div LimbBits + 1) \div 2^(k % LimbBits)) % 2

MaxInt(u, v) == IF u < v THEN v ELSE u
MinInt(u, v) == IF u < v THEN u ELSE v

\* one step of long division: r2 is twice the remainder plus the next digit
DivBit[d \in BigNat, q \in BigNat, r2 \in BigNat] ==
    IF Leq(d, r2) THEN <<TwicePlus[q, 1], Sub[r2, d]>>
    ELSE <<TwicePlus[q, 0], r2>>

\* long division over the binary digits hi down to lo of p; qr is
\* <<quotient, remainder>> so far
DivBits[p \in BigNat, d \in BigNat, hi \in Int, lo \in Int, qr \in NatPair] ==
    IF hi < lo THEN qr
    ELSE DivBits[p, d, hi - 1, lo,
                 DivBit[d, qr[1], TwicePlus[qr[2], Bit(p, hi)]]]

\* the same, LimbBits digits at a time (the recursion stays shallow)
DivChunks[p \in BigNat, d \in BigNat, hi \in Int, qr \in NatPair] ==
    IF hi < 0 THEN qr
    ELSE DivChunks[p, d, hi - LimbBits,
                   DivBits[p, d, hi, MaxInt(hi - LimbBits + 1, 0), qr]]

\* <<floor(p / d), p mod d>>, for d > 0
DivMod[p \in BigNat, d \in BigNat] ==
    DivChunks[p, d, BitLen[p] - 1, <<<<>>, <<>>>>]

\* one step of the square root: r4 is four times the remainder plus the
\* next two digits, 4*root + 1 is what the next digit 1 takes away
SqrtPair[root \in BigNat, r4 \in BigNat] ==
    IF Leq(TwicePlus[TwicePlus[root, 0], 1], r4)
    THEN <<TwicePlus[root, 1], Sub[r4, TwicePlus[TwicePlus[root, 0], 1]]>>
    ELSE <<TwicePlus[root, 0], r4>>

\* the square root over the digit pairs hi down to lo of p; rr is
\* <<root, remainder>> so far
SqrtPairs[p \in BigNat, hi \in Int, lo \in Int, rr \in NatPair] ==
    IF hi < lo THEN rr
    ELSE SqrtPairs[p, hi - 1, lo,
                   SqrtPair[rr[1], TwicePlus[TwicePlus[rr[2], Bit(p, 2 * hi + 1)],
                                             Bit(p, 2 * hi)]]]

SqrtChunks[p \in BigNat, hi \in Int, rr \in NatPair] ==
    IF hi < 0 THEN rr
    ELSE SqrtChunks[p, hi - LimbBits,
                    SqrtPairs[p, hi, MaxInt(hi - LimbBits + 1, 0), rr]]

\* <<floor(sqrt(p)), p - floor(sqrt(p))^2>>
SqrtRem[p \in BigNat] == SqrtChunks[p, BitLen[p] \div 2, <<<<>>, <<>>>>]

\* the value of p as an integer of TLC, for p <= IntMax
IntOf(p) == Limb(p, 1) + Limb(p, 2) * Base + Limb(p, 3) * Base * Base

\* a value of bit length <= w - 1 is a non-negative value of a signed w-bit type
Fits(p, w) == BitLen[p] <= w - 1

\* long -> int, narrowing modulo 2^32 to the two's complement value
ToInt[p \in BigNat] ==
    IF Bit(p, IntBits - 1) = 0
    THEN Limb(p, 1) + Limb(p, 2) * Base + (Limb(p, 3) % 2) * Base * Base
    ELSE ((Limb(p, 1) + Limb(p, 2) * Base + (Limb(p, 3) % 2) * Base * Base)
          - 2^30) - 2^30

-----------------------------------------------------------------------------
(* IEEE binary64 values >= 0: [m, e] stands for m * 2^e, with m of exactly *)
(* MantBits binary digits, or m zero.  Every operation rounds the exact    *)
(* result to nearest, ties to even.                                        *)

Double == [m : BigNat, e : Int]

DZero == [m |-> <<>>, e |-> 0]

\* q is floor(mm / 2^sh): round on the digits cut off, renormalise on carry
RoundCut[mm \in BigNat, ee \in Int, sh \in Nat, q \in BigNat, cmp \in -1..1] ==
    IF cmp > 0 \/ (cmp = 0 /\ Bit(q, 0) = 1)
    THEN IF BitLen[Add[q, One]] > MantBits
         THEN [m |-> ShR[Add[q, One], 1], e |-> ee + sh + 1]
         ELSE [m |-> Add[q, One], e |-> ee + sh]
    ELSE [m |-> q, e |-> ee + sh]

RoundShift[mm \in BigNat, ee \in Int, sh \in Nat, q \in BigNat] ==
    RoundCut[mm, ee, sh, q, Cmp[Sub[mm, ShL[q, sh]], ShL[One, sh - 1]]]

\* the double nearest to mm * 2^ee
Round[mm \in BigNat, ee \in Int] ==
    IF mm = <<>> THEN DZero
    ELSE IF BitLen[mm] <= MantBits
         THEN [m |-> ShL[mm, MantBits - BitLen[mm]],
               e |-> ee - (MantBits - BitLen[mm])]
         ELSE RoundShift[mm, ee, BitLen[mm] - MantBits,
                         ShR[mm, BitLen[mm] - MantBits]]

\* int -> double (exact)
DOfInt[k \in Nat] == Round[NatOf[k], 0]

\* long long -> double
DOfNat[p \in BigNat] == Round[p, 0]

DAdd[u \in Double, v \in Double] ==
    IF u.m = <<>> THEN v
    ELSE IF v.m = <<>> THEN u
    ELSE Round[Add[ShL[u.m, u.e - MinInt(u.e, v.e)],
                   ShL[v.m, v.e - MinInt(u.e, v.e)]], MinInt(u.e, v.e)]

\* u - v, for u >= v
DSub[u \in Double, v \in Double] ==
    IF v.m = <<>> THEN u
    ELSE Round[Sub[ShL[u.m, u.e - MinInt(u.e, v.e)],
                   ShL[v.m, v.e - MinInt(u.e, v.e)]], MinInt(u.e, v.e)]

DMul[u \in Double, v \in Double] == Round[Mul[u.m, v.m], u.e + v.e]

\* qr is <<quotient, remainder>> of u.m * 2^k by v.m; a remainder makes the
\* digit below the quotient's last one, which only says "inexact"
DDivRound[qr \in NatPair, ee \in Int] ==
    Round[TwicePlus[qr[1], IF qr[2] = <<>> THEN 0 ELSE 1], ee - 1]

\* u / v, for v > 0
DDiv[u \in Double, v \in Double] ==
    IF u.m = <<>> THEN DZero
    ELSE DDivRound[DivMod[ShL[u.m, MantBits + 2], v.m],
                   u.e - v.e - (MantBits + 2)]

\* sqrt(u): the exponent is made even, the root taken of m * 2^(2*ExtraBits)
ExtraBits == 2 * LimbBits

DSqrtRound[sr \in NatPair, ee \in Int] ==
    Round[TwicePlus[sr[1], IF sr[2] = <<>> THEN 0 ELSE 1], ee - 1]

DSqrt[u \in Double] ==
    IF u.m = <<>> THEN DZero
    ELSE DSqrtRound[SqrtRem[ShL[u.m, 2 * ExtraBits + (u.e % 2)]],
                    (u.e - (u.e % 2)) \div 2 - ExtraBits]

\* u < v
DLess[u \in Double, v \in Double] ==
    IF v.m = <<>> THEN FALSE
    ELSE IF u.m = <<>> THEN TRUE
    ELSE IF u.e # v.e THEN u.e < v.e
    ELSE Less(u.m, v.m)

\* double -> integer, towards zero
DTrunc[u \in Double] == IF u.e >= 0 THEN ShL[u.m, u.e] ELSE ShR[u.m, 0 - u.e]

\* the literal 0.1: the double nearest to 1/10
Tenth == DDiv[DOfInt[1], DOfInt[10]]

-----------------------------------------------------------------------------
(* guessNumber                                                             *)

\* the oracle as the specification states it: the reply tells where the
\* secret lies relative to the candidate
GuessSpec(num) ==
    IF secret = num THEN 0 ELSE IF secret < num THEN -1 ELSE 1

\* the oracle as the header comment of the source words it: the reply tells
\* where the candidate num lies relative to the number to be guessed
GuessDoc(num) ==
    IF num < secret THEN -1 ELSE IF num > secret THEN 1 ELSE 0

guess(num) == IF api = "doc" THEN GuessDoc(num) ELSE GuessSpec(num)

\* left+right+1 in long
MidSum(l, r) == Add[Add[l, r], One]

\* a probe that does not halve the interval: c = left
MidLinear(l, r) == l

\* c = (left+right+1)/2
Mid(l, r) == ShR[MidSum(l, r), 1]

\* off by one: left = c
AboveSame(cc) == cc

\* left = c+1
Above(cc) == Add[cc, One]

\* off by one: right = c
BelowSame(cc) == cc

\* right = c-1
Below(cc) == Sub[cc, One]

\* the locals before the function body has run
InitLocals ==
    /\ pc = "start"
    /\ left = <<>> /\ right = <<>> /\ c = <<>>
    /\ g = 0 /\ arg = 0 /\ calls = 0
    /\ i = <<>> /\ a = DZero /\ iters = 0
    /\ ret = 0 /\ ub = FALSE

InitGuessVars ==
    /\ prog = "guessNumber"
    /\ InitLocals
    /\ err = 0 /\ x = 0

\* inputs near the top of the int range
BigN == {IntMax, IntMax - 1, 2^30, 2^30 + 1, 2^30 - 1, 1000000007}

BigSecrets(m) ==
    {s \in {1, 2, 3, m, m - 1, m - 2, m \div 2, m \div 2 + 1, m \div 2 + 2,
            m \div 4, 3 * (m \div 4), m \div 3, 2 * (m \div 3), m \div 5,
            m \div 7, 5 * (m \div 7), 2^30, 2^30 - 1, 2^29, 46341, 65536,
            (2^30 - 1) \div 3, 1431655765, 715827883}
       : s >= 1 /\ s <= m}

GuessInputs ==
    \/ n \in 1..MaxN /\ secret \in 1..n
    \/ n \in BigN /\ secret \in BigSecrets(n)

\* long left=1,right=n,c=(left+right+1)/2;
GuessStart ==
    /\ prog = "guessNumber" /\ pc = "start"
    /\ left' = One
    /\ right' = NatOf[n]
    /\ c' = Mid(One, NatOf[n])
    /\ ub' = ~Fits(MidSum(One, NatOf[n]), LongBits)
    /\ pc' = IF Fits(MidSum(One, NatOf[n]), LongBits) THEN "call" ELSE "ub"
    /\ UNCHANGED <<inputs, g, arg, calls, coinsLocals, sqrtLocals, ret>>

\* g=guess(c);   (before the loop and at the end of its body; a reply other
\* than -1, 0, 1 would repeat the call, and guess gives none)
CallGuess ==
    /\ prog = "guessNumber" /\ pc = "call"
    /\ arg' = ToInt[c]
    /\ g' = guess(ToInt[c])
    /\ calls' = IF calls < MaxCalls THEN calls + 1 ELSE calls
    /\ pc' = "test"
    /\ UNCHANGED <<inputs, left, right, c, coinsLocals, sqrtLocals, ret, ub>>

\* if(g==1) { left=c+1; c=(left+right+1)/2; }
GoHigher ==
    /\ prog = "guessNumber" /\ pc = "test" /\ g # 0 /\ g = 1
    /\ LET l2 == Above(c)
           ok == Fits(l2, LongBits) /\ Fits(MidSum(l2, right), LongBits)
       IN  /\ left' = l2
           /\ c' = Mid(l2, right)
           /\ ub' = ~ok
           /\ pc' = IF ok THEN "call" ELSE "ub"
    /\ UNCHANGED <<inputs, right, g, arg, calls, coinsLocals, sqrtLocals, ret>>

\* else if(g==-1) { right=c-1; c=(left+right+1)/2; }
GoLower ==
    /\ prog = "guessNumber" /\ pc = "test" /\ g # 0 /\ g = -1
    /\ LET r2 == Below(c)
           ok == Fits(MidSum(left, r2), LongBits)
       IN  /\ right' = r2
           /\ c' = Mid(left, r2)
           /\ ub' = ~ok
           /\ pc' = IF ok THEN "call" ELSE "ub"
    /\ UNCHANGED <<inputs, left, g, arg, calls, coinsLocals, sqrtLocals, ret>>

\* while(g!=0) fails: return c;
GuessReturn ==
    /\ prog = "guessNumber" /\ pc = "test" /\ g = 0
    /\ ret' = ToInt[c]
    /\ pc' = "done"
    /\ UNCHANGED <<inputs, guessLocals, coinsLocals, sqrtLocals, ub>>

NextGuess == GuessStart \/ CallGuess \/ GoHigher \/ GoLower \/ GuessReturn

InitGuess == InitGuessVars /\ api = "spec" /\ GuessInputs

InitGuessDoc == InitGuessVars /\ api = "doc" /\ GuessInputs

GuessNumberSpec == InitGuess /\ [][NextGuess]_vars /\ WF_vars(NextGuess)

GuessNumberDocSpec == InitGuessDoc /\ [][NextGuess]_vars /\ WF_vars(NextGuess)


-----------------------------------------------------------------------------
(* arrangeCoins                                                            *)

\* (long long) 8*n+1
Radicand(m) == Add[MulLimb[NatOf[m], 8], One]

\* the estimate without the final +1
EstimateNoPlusOne(m) ==
    DTrunc[DDiv[DSub[DSqrt[DOfNat[Radicand(m)]], DOfInt[1]], DOfInt[2]]]

\* long i=(sqrt( (long long) 8*n+1)-1)/2+1;
Estimate(m) ==
    DTrunc[DAdd[DDiv[DSub[DSqrt[DOfNat[Radicand(m)]], DOfInt[1]], DOfInt[2]],
                DOfInt[1]]]

\* the estimate the loop starts from, err away from the one computed
Perturbed(est, d) ==
    IF d = 0 THEN est ELSE IF d > 0 THEN Add[est, NatOf[d]] ELSE Sub[est, NatOf[0 - d]]

\* i*(i+1)
Product(ii) == Mul[ii, Add[ii, One]]

\* the loop test with >= for >
OvershootsOrMeets(ii, m) == Leq(NatOf[m], ShR[Product(ii), 1])

\* i*(i+1)/2>n
Overshoots(ii, m) == Less(NatOf[m], ShR[Product(ii), 1])

\* the integer operations of the loop test stay in long
TestFits(ii) == Fits(Add[ii, One], LongBits) /\ Fits(Product(ii), LongBits)

\* inputs near the top of the int range: INT_MAX, triangular numbers and
\* their neighbours
BigCoins ==
    {IntMax, IntMax - 1, 2147450880, 2147450879, 2147450881,
     1073720970, 1073720969, 1073720971, 2^30, 2^30 - 1,
     500000500, 500000499, 536870912, 2^29 - 1}

CoinsInputs == n \in 0..MaxCoins \/ n \in BigCoins

InitCoinsVars ==
    /\ prog = "arrangeCoins"
    /\ InitLocals
    /\ secret = 0 /\ api = "spec" /\ x = 0
    /\ CoinsInputs

\* int j=1; long i=(sqrt( (long long) 8*n+1)-1)/2+1;   (j is never read)
CoinsStart ==
    /\ prog = "arrangeCoins" /\ pc = "start"
    /\ i' = Perturbed(Estimate(n), err)
    /\ ub' = ~(Fits(Radicand(n), LongLongBits) /\ Fits(Estimate(n), LongBits))
    /\ pc' = IF Fits(Radicand(n), LongLongBits) /\ Fits(Estimate(n), LongBits)
             THEN "loop" ELSE "ub"
    /\ UNCHANGED <<inputs, guessLocals, sqrtLocals, ret>>

\* while(i*(i+1)/2>n) { i=i-1; }
CoinsDecrement ==
    /\ prog = "arrangeCoins" /\ pc = "loop"
    /\ TestFits(i)
    /\ Overshoots(i, n)
    /\ i' = Sub[i, One]
    /\ UNCHANGED <<inputs, pc, guessLocals, sqrtLocals, ret, ub>>

\* the loop test fails: return i;   (or the test itself overflows)
CoinsReturn ==
    /\ prog = "arrangeCoins" /\ pc = "loop"
    /\ ~(TestFits(i) /\ Overshoots(i, n))
    /\ ub' = ~TestFits(i)
    /\ pc' = IF TestFits(i) THEN "done" ELSE "ub"
    /\ ret' = IF TestFits(i) THEN ToInt[i] ELSE ret
    /\ UNCHANGED <<inputs, guessLocals, coinsLocals, sqrtLocals>>

NextCoins == CoinsStart \/ CoinsDecrement \/ CoinsReturn

InitCoins == InitCoinsVars /\ err = 0

\* the estimate is off by one, either way, or exact
InitCoinsErr == InitCoinsVars /\ err \in {-1, 0, 1}

ArrangeCoinsSpec == InitCoins /\ [][NextCoins]_vars /\ WF_vars(NextCoins)

ArrangeCoinsErrSpec == InitCoinsErr /\ [][NextCoins]_vars /\ WF_vars(NextCoins)

-----------------------------------------------------------------------------
(* mySqrt                                                                  *)

\* the start value without the 1+
StartValueNoPlusOne(xx) == DOfInt[xx \div 2]

\* double a=1+x/2;
StartValue(xx) == DOfInt[1 + xx \div 2]

\* a*a>x+0.1
NotConverged(aa, xx) == DLess[DAdd[DOfInt[xx], Tenth], DMul[aa, aa]]

\* a=(a+x/a)/2;
Newton(aa, xx) == DDiv[DAdd[aa, DDiv[DOfInt[xx], aa]], DOfInt[2]]

\* rounding to the nearest integer instead: int(a+0.5)
NearestInt(aa) == ToInt[DTrunc[DAdd[aa, DDiv[DOfInt[1], DOfInt[2]]]]]

\* int(a)
TruncInt(aa) == ToInt[DTrunc[aa]]

\* inputs near the top of the int range: INT_MAX, squares and their
\* neighbours
BigX ==
    {IntMax, IntMax - 1, 2147395600, 2147395599, 2147395601,
     2^30, 2^30 - 1, 2^30 + 1, 1000000000, 999950884, 999950883,
     1073676289, 2147302921, 65536, 65535, 1000001, 999999, 1000000}

SqrtInputs == x \in 0..MaxX \/ x \in BigX

InitSqrt ==
    /\ prog = "mySqrt"
    /\ InitLocals
    /\ n = 0 /\ secret = 0 /\ api = "spec" /\ err = 0
    /\ SqrtInputs

\* double a=1+x/2;
SqrtStart ==
    /\ prog = "mySqrt" /\ pc = "start"
    /\ a' = StartValue(x)
    /\ pc' = "loop"
    /\ UNCHANGED <<inputs, guessLocals, coinsLocals, iters, ret, ub>>

\* while(a*a>x+0.1) { a=(a+x/a)/2; }
SqrtIterate ==
    /\ prog = "mySqrt" /\ pc = "loop"
    /\ NotConverged(a, x)
    /\ a' = IF a.m = <<>> THEN a ELSE Newton(a, x)
    /\ pc' = IF a.m = <<>> THEN "divzero" ELSE "loop"
    /\ iters' = IF iters < MaxIters THEN iters + 1 ELSE iters
    /\ UNCHANGED <<inputs, guessLocals, coinsLocals, ret, ub>>

\* the loop test fails: return int(a);
SqrtReturn ==
    /\ prog = "mySqrt" /\ pc = "loop"
    /\ ~NotConverged(a, x)
    /\ ret' = TruncInt(a)
    /\ pc' = "done"
    /\ UNCHANGED <<inputs, guessLocals, coinsLocals, sqrtLocals, ub>>

NextSqrt == SqrtStart \/ SqrtIterate \/ SqrtReturn

MySqrtSpec == InitSqrt /\ [][NextSqrt]_vars /\ WF_vars(NextSqrt)

-----------------------------------------------------------------------------
(* Properties of guessNumber.                                              *)

\* ceil(log2(m)) for m >= 1
RECURSIVE CeilLog2(_)
CeilLog2(m) == IF m <= 1 THEN 0 ELSE 1 + CeilLog2((m - 1) \div 2 + 1)

\* C1: against an oracle that compares the secret with the candidate,
\* guessNumber(n) terminates, and what it returns is the secret.
C1_ReturnsSecret ==
    /\ <>(pc = "done")
    /\ [](pc = "done" => ret = secret)

C1_Witness ==
    pc = "done" /\ n = IntMax /\ secret = 1 /\ ret = 1 /\ calls > 30

\* C4: the number of calls of guess, the one before the loop included, is at
\* most ceil(log2(n)) + 1.
C4_CallBound == calls <= CeilLog2(n) + 1

C4_Witness == pc = "done" /\ n = 2^30 /\ calls = CeilLog2(n) + 1

\* C5: left, right, c and left+right+1 stay in the range of long, so the
\* midpoint never wraps, and the candidate handed to guess as an int is the
\* candidate itself and lies in 1..n.
C5_NoOverflow ==
    /\ ~ub /\ pc # "ub"
    /\ Fits(left, LongBits) /\ Fits(right, LongBits) /\ Fits(c, LongBits)
    /\ pc \in {"call", "test"} => Fits(MidSum(left, right), LongBits)
    /\ calls > 0 => arg \in 1..n
    /\ pc = "test" => NatOf[arg] = c

C5_Witness ==
    /\ n = IntMax /\ pc = "test" /\ calls > 1
    /\ BitLen[MidSum(left, right)] > IntBits - 1

\* the search interval at a call of guess
C10_AtCall ==
    pc = "call" =>
        /\ Leq(One, left) /\ Leq(left, c) /\ Leq(c, right)
        /\ Leq(right, NatOf[n])
        /\ Leq(left, NatOf[secret]) /\ Leq(NatOf[secret], right)

\* what a reply other than 0 does to the interval
C10_Narrows ==
    /\ pc = "test" /\ g = 1 /\ pc' = "call" =>
          /\ left' = Add[c, One] /\ right' = right
          /\ Less(Add[right', left], Add[right, left'])
    /\ pc = "test" /\ g = -1 /\ pc' = "call" =>
          /\ Add[right', One] = c /\ left' = left
          /\ Less(Add[right', left], Add[right, left'])

\* C10: at every call guess(c), 1 <= left <= c <= right <= n and
\* left <= secret <= right; a reply 1 sets left = c+1 and a reply -1 sets
\* right = c-1, the other end unchanged, and right - left strictly decreases.
C10_Interval == []C10_AtCall /\ [][C10_Narrows]_vars

C10_Witness ==
    pc = "call" /\ n = IntMax /\ calls > 29 /\ left = right /\ c = NatOf[secret]

\* C9: with the oracle as the header comment words it (-1 when num is below
\* the number to be guessed, 1 when num is above it), guessNumber(n)
\* terminates and returns that number.
C9_ReturnsUnderDoc ==
    /\ <>(pc = "done")
    /\ [](pc = "done" => ret = secret)

-----------------------------------------------------------------------------
(* Properties of arrangeCoins.                                             *)

\* k*(k+1)/2, the coins of k complete rows
Triangular(k) == ShR[Mul[NatOf[k], NatOf[k + 1]], 1]

\* k is the number of complete rows m coins make
RowsOf(k, m) ==
    /\ k >= 0
    /\ Leq(Triangular(k), NatOf[m])
    /\ Less(NatOf[m], Triangular(k + 1))

\* C2: arrangeCoins(n) terminates and returns the k with
\* k*(k+1)/2 <= n < (k+1)*(k+2)/2; it returns 0, 1, 2, 3 for n = 0, 1, 5, 8.
C2_CompleteRows ==
    /\ <>(pc = "done")
    /\ [](pc = "done" =>
            /\ RowsOf(ret, n)
            /\ n = 0 => ret = 0
            /\ n = 1 => ret = 1
            /\ n = 5 => ret = 2
            /\ n = 8 => ret = 3)

C2_Witness == pc = "done" /\ n = IntMax /\ ret = 65535 /\ i = NatOf[65535]

\* C6: with the estimate the loop starts from one above or one below the
\* value computed, as with it exact, the loop that only decrements still ends
\* on the largest k with k*(k+1)/2 <= n.
C6_SurvivesOffByOne == pc = "done" => RowsOf(ret, n) /\ i = NatOf[ret]

C6_Witness ==
    /\ pc = "done" /\ err = -1 /\ n = 2147450880 /\ ret = 65535
    /\ Triangular(ret) = NatOf[n]

\* C8: 8*n+1 and every i*(i+1) of the loop test stay in the 64-bit range
\* they are computed in, and the i returned fits an int.
C8_CoinsNoOverflow ==
    /\ ~ub /\ pc # "ub"
    /\ Fits(Radicand(n), LongLongBits)
    /\ pc = "loop" => TestFits(i)
    /\ pc \in {"loop", "done"} => Fits(i, IntBits)
    /\ pc = "done" => NatOf[ret] = i

C8_Witness ==
    /\ pc = "loop" /\ n = IntMax
    /\ ~Fits(Radicand(n), IntBits)
    /\ ~Fits(Product(i), IntBits)

-----------------------------------------------------------------------------
(* Properties of mySqrt.                                                   *)

Square(k) == Mul[NatOf[k], NatOf[k]]

\* C3: mySqrt(x) terminates and returns the r with r*r <= x < (r+1)*(r+1),
\* the truncation of the iterate on which a*a > x+0.1 first fails; it
\* returns 0, 2, 2 for x = 0, 4, 8.
C3_FloorOfRoot ==
    /\ <>(pc = "done")
    /\ [](pc = "done" =>
            /\ ret >= 0
            /\ Leq(Square(ret), NatOf[x])
            /\ Less(NatOf[x], Square(ret + 1))
            /\ NatOf[ret] = DTrunc[a]
            /\ ~NotConverged(a, x)
            /\ x = 0 => ret = 0
            /\ x = 4 => ret = 2
            /\ x = 8 => ret = 2)

C3_Witness == pc = "done" /\ x = IntMax /\ ret = 46340 /\ iters > 10

\* C7: the divisor a is positive whenever x/a is computed; x = 1 returns 1
\* without the loop body running, x = 0 returns 0 after finitely many
\* halvings of a.
C7_NoDivisionByZero ==
    /\ pc # "divzero"
    /\ pc = "loop" /\ NotConverged(a, x) => a.m # <<>>
    /\ pc = "done" /\ x = 1 => ret = 1 /\ iters = 0
    /\ pc = "done" /\ x = 0 => ret = 0 /\ iters > 0 /\ iters < MaxIters

C7_Witness ==
    /\ pc = "loop" /\ x = 0 /\ iters = 1
    /\ NotConverged(a, x) /\ DLess[a, DOfInt[1]] /\ a.m # <<>>

=============================================================================
